---- MODULE Spec2Model ----
(***************************************************************************)
(* Room creation and room upgrade of the conduit homeserver               *)
(* (src/src/client_server/room.rs): create_room_route and                 *)
(* upgrade_room_route as step machines over the per-room event log, the   *)
(* alias registry and the public-room directory.                          *)
(*                                                                         *)
(* Every append_pdu / set_alias / set_public call of a handler is one     *)
(* step of the request that runs it; requests of different processes      *)
(* interleave between steps.  An optional value is a sequence of length   *)
(* 0 (None) or 1 (Some).  The writes of the database (append_pdu,         *)
(* set_alias, set_public) may fail; its reads return what is stored.      *)
(***************************************************************************)
EXTENDS Integers, Sequences, FiniteSets, TLC

VARIABLES
    log,                  \* db.rooms: room id -> sequence of appended PDUs
    alias_roomid,         \* db.rooms alias registry: alias -> Option<room id>
    public_rooms,         \* db.rooms public directory: set of room ids
    minted,               \* number of room ids RoomId::new has handed out
    encryption_disabled,  \* db.globals.encryption_disabled()
    proc                  \* per request slot: position and locals of the handler

vars == <<log, alias_roomid, public_rooms, minted, encryption_disabled, proc>>

(***************************************************************************)
(* Bounds                                                                  *)
(***************************************************************************)
MaxRooms == 2          \* room ids RoomId::new may hand out in one behaviour
MaxInitialState == 2   \* longest initial_state list of a createRoom request
MaxInvite == 2         \* longest invite list of a createRoom request

None == <<>>
Some(v) == <<v>>
IsSome(o) == o # <<>>
Unwrap(o) == o[1]

Range(s) == {s[i] : i \in 1..Len(s)}
SeqsUpTo(S, n) == UNION {[1..k -> S] : k \in 0..n}

Procs == {"p1", "p2"}
Users == {"@alice", "@bob"}
ServerName == "example.org"
Localparts == {"lobby", "dev"}
RoomIds == 1..MaxRooms

\* Event types (ruma EventType variants used by the two handlers)
RoomCreate == "m.room.create"
RoomMember == "m.room.member"
RoomPowerLevels == "m.room.power_levels"
RoomJoinRules == "m.room.join_rules"
RoomHistoryVisibility == "m.room.history_visibility"
RoomGuestAccess == "m.room.guest_access"
RoomName == "m.room.name"
RoomTopic == "m.room.topic"
RoomTombstone == "m.room.tombstone"
RoomServerAcl == "m.room.server_acl"
RoomEncryption == "m.room.encryption"
RoomAvatar == "m.room.avatar"


(***************************************************************************)
(* External collaborators: profile lookup, JSON parsing, the event log    *)
(***************************************************************************)
\* db.users.displayname / db.users.avatar_url: Option<String> per user
displayname(u) == IF u = "@alice" THEN Some("Alice") ELSE None
avatar_url(u) == IF u = "@bob" THEN Some("mxc://bob") ELSE None

\* serde_json::from_str on caller-supplied raw JSON: Some(value) or None (Err)
from_str(raw) == IF raw.valid THEN Some(raw.value) ELSE None

\* name::NameEventContent::new(name): Err for a name that fails validation
NameTooLong == "<name of 256 bytes>"
NameEventContent_new(name) ==
    IF name = NameTooLong THEN None ELSE Some([name |-> name])

\* The PDU that append_pdu commits for a PduBuilder; its event id is fresh
Pdu(builder, lg) ==
    [event_id |-> <<builder.room_id, Len(lg[builder.room_id]) + 1>>,
     room_id |-> builder.room_id,
     sender |-> builder.sender,
     event_type |-> builder.event_type,
     state_key |-> builder.state_key,
     content |-> builder.content]

append_pdu_CommitsRejected(builder, accepted, lg) ==
    [lg EXCEPT ![builder.room_id] = Append(@, Pdu(builder, lg))]

\* db.rooms.append_pdu: commits the event when the log accepts it, and leaves
\* the log as it was when it rejects it
append_pdu(builder, accepted, lg) ==
    IF accepted
    THEN [lg EXCEPT ![builder.room_id] = Append(@, Pdu(builder, lg))]
    ELSE lg

\* db.rooms.room_state_get: the current state event of (event type, state key)
StateIdx(room, event_type, state_key, lg) ==
    {i \in 1..Len(lg[room]) :
        /\ lg[room][i].event_type = event_type
        /\ lg[room][i].state_key = Some(state_key)}

Max(S) == CHOOSE x \in S : \A y \in S : y <= x

room_state_get(room, event_type, state_key, lg) ==
    LET idx == StateIdx(room, event_type, state_key, lg)
    IN IF idx = {} THEN None ELSE Some(lg[room][Max(idx)])

\* db.rooms.id_from_alias
id_from_alias(alias) == alias_roomid[alias]

AliasInUse_Never(alias) == FALSE

\* line 40: db.rooms.id_from_alias(&alias)?.is_some()
AliasInUse(alias) == IsSome(id_from_alias(alias))

(***************************************************************************)
(* Request slots                                                           *)
(***************************************************************************)
NoResult == [status |-> "none", kind |-> "", room_id |-> 0]
Ok(room) == [status |-> "ok", kind |-> "", room_id |-> room]
Err(kind) == [status |-> "error", kind |-> kind, room_id |-> 0]

IdleProc ==
    [pc |-> "idle", op |-> "none", body |-> [sender_id |-> ""],
     room_id |-> 0, alias |-> None, i |-> 0,
     tombstone_event_id |-> None, federate |-> TRUE,
     visited |-> {}, listed |-> {}, skipped |-> {}, rebind_failed |-> {},
     power_levels |-> None, lock_accepted |-> TRUE,
     failed_at |-> "", result |-> NoResult]

Free(p) == proc[p].pc \in {"idle", "done"}

\* `return Err(..)` / the `?` operator: the handler ends with the error
Return(pr, res) ==
    [pr EXCEPT !.failed_at = IF res.status = "error" THEN pr.pc ELSE "",
               !.pc = "done", !.result = res]

Goto(pr, label) == [pr EXCEPT !.pc = label]

Try_IgnoreError(pr, accepted, next) == next

\* `db.rooms.append_pdu(..)?`: go on when the append succeeded, return its
\* error otherwise
Try(pr, accepted, next) ==
    IF accepted THEN next ELSE Return(pr, Err("Forbidden"))


(***************************************************************************)
(* create_room_route                                                       *)
(***************************************************************************)
\* RoomAliasId::try_from(format!("#{}:{}", localpart, server_name))
BadLocalpart == "no:colon:allowed"
RoomAliasId_try_from(localpart) ==
    IF localpart = BadLocalpart
    THEN None
    ELSE Some([localpart |-> localpart, server |-> ServerName])

Aliases == {Unwrap(RoomAliasId_try_from(l)) : l \in Localparts}

\* lines 50-56: the content of the m.room.create event
CreateContent(body) ==
    [creator |-> body.sender_id,
     federate |-> IF IsSome(body.creation_content)
                  THEN Unwrap(body.creation_content).federate
                  ELSE TRUE,
     predecessor |-> IF IsSome(body.creation_content)
                     THEN Unwrap(body.creation_content).predecessor
                     ELSE None,
     room_version |-> "6"]

\* member::MemberEventContent of lines 79-85, 292-298 and 442-448
MemberContent(membership, user, is_direct) ==
    [membership |-> membership,
     displayname |-> displayname(user),
     avatar_url |-> avatar_url(user),
     is_direct |-> is_direct,
     third_party_invite |-> None]

\* lines 96-100: the creator and every invited user at level 100
CreatorAndInvitees(body) ==
    [u \in {body.sender_id} \cup Range(body.invite) |-> 100]

\* lines 107-120: the synthesized default power levels
DefaultPowerLevels(body) ==
    [ban |-> 50,
     events |-> <<>>,
     events_default |-> 0,
     invite |-> 50,
     kick |-> 50,
     redact |-> 50,
     state_default |-> 50,
     users |-> CreatorAndInvitees(body),
     users_default |-> 0,
     notifications |-> [room |-> 50]]

power_levels_content_AlwaysDefaults(body) == Some(DefaultPowerLevels(body))

\* lines 102-122: Option of the content of the m.room.power_levels event;
\* None when the override does not parse
power_levels_content(body) ==
    IF IsSome(body.power_level_content_override)
    THEN from_str(Unwrap(body.power_level_content_override))
    ELSE Some(DefaultPowerLevels(body))

\* lines 140-144
Visibility(body) ==
    IF IsSome(body.visibility) THEN Unwrap(body.visibility) ELSE "private"

Preset_FromVisibilityOnly(body) ==
    IF Visibility(body) = "public" THEN "public_chat" ELSE "private_chat"

Preset(body) ==
    IF IsSome(body.preset)
    THEN Unwrap(body.preset)
    ELSE IF Visibility(body) = "public" THEN "public_chat" ELSE "private_chat"

\* lines 152-162
JoinRulesContent(body) ==
    IF Preset(body) = "public_chat"
    THEN [join_rule |-> "public"]
    ELSE [join_rule |-> "invite"]

\* lines 177-179
HistoryVisibilityContent == [history_visibility |-> "shared"]

\* lines 195-206
GuestAccessContent(body) ==
    IF Preset(body) = "public_chat"
    THEN [guest_access |-> "forbidden"]
    ELSE [guest_access |-> "can_join"]

SkipEntry_Never(entry, enc_disabled) == FALSE

\* line 223: the initial_state entries the loop `continue`s over
SkipEntry(entry, enc_disabled) ==
    entry.event_type = RoomEncryption /\ enc_disabled

\* The PduBuilder values of the handler: every one has unsigned: None and
\* redacts: None, which the model leaves out
Builder(room, sender, event_type, state_key, content) ==
    [room_id |-> room, sender |-> sender, event_type |-> event_type,
     state_key |-> state_key, content |-> content]

\* Positions of the handler after step 4.3, in source order.  A step whose
\* condition is false is passed over without a state change.
CrReturn(pr) == Return(pr, Ok(pr.room_id))

CrToSetPublic_ByPreset(pr) ==
    IF Preset(pr.body) = "public_chat"
    THEN Goto(pr, "cr_set_public")
    ELSE CrReturn(pr)

\* line 314
CrToSetPublic(pr) ==
    IF pr.body.visibility = Some("public")
    THEN Goto(pr, "cr_set_public")
    ELSE CrReturn(pr)

\* line 310
CrToSetAlias(pr) ==
    IF IsSome(pr.alias) THEN Goto(pr, "cr_set_alias") ELSE CrToSetPublic(pr)

\* line 286
CrToInvite(pr, i) ==
    IF i <= Len(pr.body.invite)
    THEN [pr EXCEPT !.pc = "cr_invite", !.i = i]
    ELSE CrToSetAlias(pr)

CrToTopic_Dropped(pr) == CrToInvite(pr, 1)

\* line 266
CrToTopic(pr) ==
    IF IsSome(pr.body.topic) THEN Goto(pr, "cr_topic") ELSE CrToInvite(pr, 1)

\* line 245
CrToName(pr) ==
    IF IsSome(pr.body.name) THEN Goto(pr, "cr_name") ELSE CrToTopic(pr)

\* lines 216-225: the next entry of initial_state that is not skipped
NextEntry(entries, i, enc_disabled) ==
    LET rest == {j \in i..Len(entries) : ~SkipEntry(entries[j], enc_disabled)}
    IN IF rest = {} THEN Len(entries) + 1
       ELSE CHOOSE j \in rest : \A k \in rest : j <= k

CrToInitialState(pr, i, enc_disabled) ==
    LET j == NextEntry(pr.body.initial_state, i, enc_disabled)
    IN IF j <= Len(pr.body.initial_state)
       THEN [pr EXCEPT !.pc = "cr_initial_state", !.i = j]
       ELSE CrToName(pr)

\* lines 27-56: the room id, then the alias check
create_room_route(p, body) ==
    /\ Free(p)
    /\ (minted + 1) \in DOMAIN log
    /\ minted' = minted + 1
    /\ LET pr == [IdleProc EXCEPT !.pc = "cr_alias", !.op = "create",
                                  !.body = body, !.room_id = minted + 1]
           alias == IF IsSome(body.room_alias_name)
                    THEN RoomAliasId_try_from(Unwrap(body.room_alias_name))
                    ELSE None
       IN proc' = [proc EXCEPT ![p] =
            IF body.room_alias_name = None
            THEN Goto(pr, "cr_create")
            ELSE IF alias = None
            THEN Return(pr, Err("InvalidParam"))
            ELSE IF AliasInUse(Unwrap(alias))
            THEN Return(pr, Err("RoomInUse"))
            ELSE Goto([pr EXCEPT !.alias = alias], "cr_create")]
    /\ UNCHANGED <<log, alias_roomid, public_rooms, encryption_disabled>>

\* lines 58-71: 1. The room create event
cr_create(p) ==
    LET pr == proc[p] IN
    /\ pr.pc = "cr_create"
    /\ \E accepted \in BOOLEAN :
        /\ log' = append_pdu(Builder(pr.room_id, pr.body.sender_id, RoomCreate,
                                     Some(""), CreateContent(pr.body)),
                             accepted, log)
        /\ proc' = [proc EXCEPT ![p] = Try(pr, accepted, Goto(pr, "cr_join"))]
    /\ UNCHANGED <<alias_roomid, public_rooms, minted, encryption_disabled>>

\* lines 73-93: 2. Let the room creator join
cr_join(p) ==
    LET pr == proc[p] IN
    /\ pr.pc = "cr_join"
    /\ \E accepted \in BOOLEAN :
        /\ log' = append_pdu(
               Builder(pr.room_id, pr.body.sender_id, RoomMember,
                       Some(pr.body.sender_id),
                       MemberContent("join", pr.body.sender_id,
                                     pr.body.is_direct)),
               accepted, log)
        /\ proc' = [proc EXCEPT ![p] =
                       Try(pr, accepted, Goto(pr, "cr_power_levels"))]
    /\ UNCHANGED <<alias_roomid, public_rooms, minted, encryption_disabled>>

\* lines 95-135: 3. Power levels
cr_power_levels(p) ==
    LET pr == proc[p]
        content == power_levels_content(pr.body)
    IN
    /\ pr.pc = "cr_power_levels"
    /\ \E accepted \in BOOLEAN :
        IF content = None
        THEN /\ accepted
             /\ proc' = [proc EXCEPT ![p] = Return(pr, Err("BadJson"))]
             /\ log' = log
        ELSE /\ log' = append_pdu(
                    Builder(pr.room_id, pr.body.sender_id, RoomPowerLevels,
                            Some(""), Unwrap(content)),
                    accepted, log)
             /\ proc' = [proc EXCEPT ![p] =
                            Try(pr, accepted, Goto(pr, "cr_join_rules"))]
    /\ UNCHANGED <<alias_roomid, public_rooms, minted, encryption_disabled>>

\* lines 146-169: 4.1 Join Rules
cr_join_rules(p) ==
    LET pr == proc[p] IN
    /\ pr.pc = "cr_join_rules"
    /\ \E accepted \in BOOLEAN :
        /\ log' = append_pdu(
                Builder(pr.room_id, pr.body.sender_id, RoomJoinRules, Some(""),
                        JoinRulesContent(pr.body)),
                accepted, log)
        /\ proc' = [proc EXCEPT ![p] =
                        Try(pr, accepted, Goto(pr, "cr_history_visibility"))]
    /\ UNCHANGED <<alias_roomid, public_rooms, minted, encryption_disabled>>

\* lines 171-187: 4.2 History Visibility
cr_history_visibility(p) ==
    LET pr == proc[p] IN
    /\ pr.pc = "cr_history_visibility"
    /\ \E accepted \in BOOLEAN :
        /\ log' = append_pdu(
                Builder(pr.room_id, pr.body.sender_id, RoomHistoryVisibility,
                        Some(""), HistoryVisibilityContent),
                accepted, log)
        /\ proc' = [proc EXCEPT ![p] =
                        Try(pr, accepted, Goto(pr, "cr_guest_access"))]
    /\ UNCHANGED <<alias_roomid, public_rooms, minted, encryption_disabled>>

\* lines 189-213: 4.3 Guest Access
cr_guest_access(p) ==
    LET pr == proc[p] IN
    /\ pr.pc = "cr_guest_access"
    /\ \E accepted \in BOOLEAN :
        /\ log' = append_pdu(
                Builder(pr.room_id, pr.body.sender_id, RoomGuestAccess, Some(""),
                        GuestAccessContent(pr.body)),
                accepted, log)
        /\ proc' = [proc EXCEPT ![p] =
                Try(pr, accepted,
                    CrToInitialState(pr, 1, encryption_disabled))]
    /\ UNCHANGED <<alias_roomid, public_rooms, minted, encryption_disabled>>

\* lines 215-242: 5. Events listed in initial_state
cr_initial_state(p) ==
    LET pr == proc[p]
        entry == pr.body.initial_state[pr.i]
        content == from_str(entry.content)
    IN
    /\ pr.pc = "cr_initial_state"
    /\ \E accepted \in BOOLEAN :
        IF content = None
        THEN /\ accepted
             /\ proc' = [proc EXCEPT ![p] = Return(pr, Err("BadJson"))]
             /\ log' = log
        ELSE /\ log' = append_pdu(
                    Builder(pr.room_id, pr.body.sender_id, entry.event_type,
                            entry.state_key, Unwrap(content)),
                    accepted, log)
             /\ proc' = [proc EXCEPT ![p] =
                    Try(pr, accepted,
                        CrToInitialState(pr, pr.i + 1, encryption_disabled))]
    /\ UNCHANGED <<alias_roomid, public_rooms, minted, encryption_disabled>>

\* lines 244-264: 6. Events implied by name
cr_name(p) ==
    LET pr == proc[p]
        content == NameEventContent_new(Unwrap(pr.body.name))
    IN
    /\ pr.pc = "cr_name"
    /\ \E accepted \in BOOLEAN :
        IF content = None
        THEN /\ accepted
             /\ proc' = [proc EXCEPT ![p] = Return(pr, Err("InvalidParam"))]
             /\ log' = log
        ELSE /\ log' = append_pdu(
                    Builder(pr.room_id, pr.body.sender_id, RoomName, Some(""),
                            Unwrap(content)),
                    accepted, log)
             /\ proc' = [proc EXCEPT ![p] = Try(pr, accepted, CrToTopic(pr))]
    /\ UNCHANGED <<alias_roomid, public_rooms, minted, encryption_disabled>>

\* lines 266-283: 6. Events implied by topic
cr_topic(p) ==
    LET pr == proc[p] IN
    /\ pr.pc = "cr_topic"
    /\ \E accepted \in BOOLEAN :
        /\ log' = append_pdu(
                Builder(pr.room_id, pr.body.sender_id, RoomTopic, Some(""),
                        [topic |-> Unwrap(pr.body.topic)]),
                accepted, log)
        /\ proc' = [proc EXCEPT ![p] = Try(pr, accepted, CrToInvite(pr, 1))]
    /\ UNCHANGED <<alias_roomid, public_rooms, minted, encryption_disabled>>

InvitedUser_Reversed(body, i) == body.invite[Len(body.invite) + 1 - i]

\* line 286: `for user in &body.invite`, the i-th user of the loop
InvitedUser(body, i) == body.invite[i]

\* lines 285-307: 7. Events implied by invite
cr_invite(p) ==
    LET pr == proc[p]
        user == InvitedUser(pr.body, pr.i)
    IN
    /\ pr.pc = "cr_invite"
    /\ \E accepted \in BOOLEAN :
        /\ log' = append_pdu(
               Builder(pr.room_id, pr.body.sender_id, RoomMember,
                       Some(user),
                       MemberContent("invite", user, pr.body.is_direct)),
               accepted, log)
        /\ proc' = [proc EXCEPT ![p] =
               Try(pr, accepted, CrToInvite(pr, pr.i + 1))]
    /\ UNCHANGED <<alias_roomid, public_rooms, minted, encryption_disabled>>

\* db.rooms.set_alias(alias, Some(room_id)): the registry binds the alias to
\* the room, whatever it resolved to before
set_alias(alias, room, registry) == [registry EXCEPT ![alias] = Some(room)]

\* db.rooms.set_public(room_id, true)
set_public(room, directory) == directory \cup {room}

\* lines 309-312: Homeserver specific stuff, the alias
cr_set_alias(p) ==
    LET pr == proc[p] IN
    /\ pr.pc = "cr_set_alias"
    /\ \E db_ok \in BOOLEAN :
        IF db_ok
        THEN /\ alias_roomid' = set_alias(Unwrap(pr.alias), pr.room_id,
                                          alias_roomid)
             /\ proc' = [proc EXCEPT ![p] = CrToSetPublic(pr)]
        ELSE /\ alias_roomid' = alias_roomid
             /\ proc' = [proc EXCEPT ![p] = Return(pr, Err("BadDatabase"))]
    /\ UNCHANGED <<log, public_rooms, minted, encryption_disabled>>

\* lines 314-318: the public room directory, then the response
cr_set_public(p) ==
    LET pr == proc[p] IN
    /\ pr.pc = "cr_set_public"
    /\ \E db_ok \in BOOLEAN :
        IF db_ok
        THEN /\ public_rooms' = set_public(pr.room_id, public_rooms)
             /\ proc' = [proc EXCEPT ![p] = CrReturn(pr)]
        ELSE /\ public_rooms' = public_rooms
             /\ proc' = [proc EXCEPT ![p] = Return(pr, Err("BadDatabase"))]
    /\ UNCHANGED <<log, alias_roomid, minted, encryption_disabled>>

CreateSteps(p) ==
    \/ cr_create(p)
    \/ cr_join(p)
    \/ cr_power_levels(p)
    \/ cr_join_rules(p)
    \/ cr_history_visibility(p)
    \/ cr_guest_access(p)
    \/ cr_initial_state(p)
    \/ cr_name(p)
    \/ cr_topic(p)
    \/ cr_invite(p)
    \/ cr_set_alias(p)
    \/ cr_set_public(p)


(***************************************************************************)
(* upgrade_room_route                                                      *)
(***************************************************************************)
\* RoomVersionId::try_from(new_version): None (Err) for a string that is no
\* room version id
RoomVersionId_try_from(new_version) ==
    IF new_version = "" THEN None ELSE Some(new_version)

SupportedVersion_Any(version) == TRUE

\* lines 363-366: matches!(new_version, Version5 | Version6)
SupportedVersion(version) == version \in {"5", "6"}

TombstoneContent_NoRoom(replacement_room) ==
    [body |-> "This room has been replaced", replacement_room |-> 0]

\* lines 383-386
TombstoneContent(replacement_room) ==
    [body |-> "This room has been replaced",
     replacement_room |-> replacement_room]

\* ruma's CreateEventContent read back from a stored event: None (Err) for a
\* content that does not deserialize
deserialize_create(content) ==
    IF {"creator", "federate"} \subseteq DOMAIN content
    THEN Some(content)
    ELSE None

Predecessor_OfReplacement(pr) ==
    Some([room_id |-> pr.room_id, event_id |-> Unwrap(pr.tombstone_event_id)])

\* lines 408-412: Use the m.room.tombstone event as the predecessor
Predecessor(pr) ==
    Some([room_id |-> pr.body.room_id,
          event_id |-> Unwrap(pr.tombstone_event_id)])

\* lines 414-419
UpgradeCreateContent(pr, federate) ==
    [creator |-> pr.body.sender_id,
     federate |-> federate,
     predecessor |-> Predecessor(pr),
     room_version |-> Unwrap(RoomVersionId_try_from(pr.body.new_version))]

transferable_state_events_Reordered ==
    <<RoomServerAcl, RoomEncryption, RoomName, RoomAvatar, RoomTopic,
      RoomGuestAccess, RoomHistoryVisibility, RoomPowerLevels, RoomJoinRules>>

\* lines 458-469: Recommended transferable state events list from the specs
transferable_state_events ==
    <<RoomServerAcl, RoomEncryption, RoomName, RoomAvatar, RoomTopic,
      RoomGuestAccess, RoomHistoryVisibility, RoomJoinRules, RoomPowerLevels>>

\* lines 472-476: the next listed type the old room has a state event of
\* (the loop `continue`s over the others), or one past the list
NextTransfer(room, i, lg) ==
    LET present == {j \in i..Len(transferable_state_events) :
                        IsSome(room_state_get(room,
                                   transferable_state_events[j], "", lg))}
    IN IF present = {} THEN Len(transferable_state_events) + 1
       ELSE CHOOSE j \in present : \A k \in present : j <= k

\* db.rooms.room_aliases(room_id): the aliases the registry has for the room
room_aliases(room, registry) ==
    {a \in DOMAIN registry : registry[a] = Some(room)}

\* ruma's PowerLevelsEventContent read back from a stored event: a field
\* the content lacks takes its default, a field the type does not have is
\* dropped, and a field of the wrong type fails the whole (None)
PowerLevelsDefaults ==
    [ban |-> 50, events |-> <<>>, events_default |-> 0, invite |-> 50,
     kick |-> 50, redact |-> 50, state_default |-> 50, users |-> <<>>,
     users_default |-> 0, notifications |-> [room |-> 50]]

deserialize_power_levels(content) ==
    IF "type_error" \in DOMAIN content
    THEN None
    ELSE Some([f \in DOMAIN PowerLevelsDefaults |->
                IF f \in DOMAIN content
                THEN content[f]
                ELSE PowerLevelsDefaults[f]])

new_level_NoFloor(power_levels) == power_levels.users_default + 1

\* lines 511-517
new_level(power_levels) ==
    IF power_levels.users_default + 1 > 50
    THEN power_levels.users_default + 1
    ELSE 50

LockedDown(power_levels) ==
    [power_levels EXCEPT !.events_default = new_level(power_levels),
                         !.invite = new_level(power_levels)]

event_content_AfterLockDown(room, event_type, lg) ==
    LET content == Unwrap(room_state_get(room, event_type, "", lg)).content
    IN IF event_type = RoomPowerLevels
            /\ IsSome(deserialize_power_levels(content))
       THEN LockedDown(Unwrap(deserialize_power_levels(content)))
       ELSE content

\* lines 473-476: the content of the old room's state event of a listed type
event_content(room, event_type, lg) ==
    Unwrap(room_state_get(room, event_type, "", lg)).content

ok_discard_Propagates(pr, accepted, next) == Try(pr, accepted, next)

\* line 535: `.ok()` drops the result of the append
ok_discard(pr, accepted, next) == next

\* lines 357-374: the version check, then the replacement room id
upgrade_room_route(p, body) ==
    LET pr == [IdleProc EXCEPT !.pc = "up_validate", !.op = "upgrade",
                               !.body = body]
        version == RoomVersionId_try_from(body.new_version)
    IN
    /\ Free(p)
    /\ IF version = None
       THEN /\ proc' = [proc EXCEPT ![p] =
                        Return(pr, [status |-> "panic",
                                    kind |-> "invalid room version id",
                                    room_id |-> 0])]
            /\ minted' = minted
       ELSE IF ~SupportedVersion(Unwrap(version))
       THEN /\ proc' = [proc EXCEPT ![p] =
                        Return(pr, Err("UnsupportedRoomVersion"))]
            /\ minted' = minted
       ELSE /\ (minted + 1) \in DOMAIN log
            /\ minted' = minted + 1
            /\ proc' = [proc EXCEPT ![p] =
                        Goto([pr EXCEPT !.room_id = minted + 1],
                             "up_tombstone")]
    /\ UNCHANGED <<log, alias_roomid, public_rooms, encryption_disabled>>

\* lines 376-394: the tombstone in the old room
up_tombstone(p) ==
    LET pr == proc[p]
        builder == Builder(pr.body.room_id, pr.body.sender_id, RoomTombstone,
                           Some(""), TombstoneContent(pr.room_id))
    IN
    /\ pr.pc = "up_tombstone"
    /\ \E accepted \in BOOLEAN :
        /\ log' = append_pdu(builder, accepted, log)
        /\ proc' = [proc EXCEPT ![p] =
                Try(pr, accepted,
                    Goto([pr EXCEPT !.tombstone_event_id =
                                        Some(Pdu(builder, log).event_id)],
                         "up_create"))]
    /\ UNCHANGED <<alias_roomid, public_rooms, minted, encryption_disabled>>

\* lines 396-434: the old room's federate flag, then the create event of the
\* replacement room
up_create(p) ==
    LET pr == proc[p]
        old == room_state_get(pr.body.room_id, RoomCreate, "", log)
        content == IF IsSome(old)
                   THEN deserialize_create(Unwrap(old).content)
                   ELSE None
    IN
    /\ pr.pc = "up_create"
    /\ \E accepted \in BOOLEAN :
        IF content = None
        THEN /\ accepted
             /\ proc' = [proc EXCEPT ![p] = Return(pr, Err("BadDatabase"))]
             /\ log' = log
        ELSE /\ log' = append_pdu(
                    Builder(pr.room_id, pr.body.sender_id, RoomCreate, Some(""),
                            UpgradeCreateContent(pr, Unwrap(content).federate)),
                    accepted, log)
             /\ proc' = [proc EXCEPT ![p] =
                    Try(pr, accepted,
                        Goto([pr EXCEPT !.federate = Unwrap(content).federate],
                             "up_join"))]
    /\ UNCHANGED <<alias_roomid, public_rooms, minted, encryption_disabled>>

\* lines 436-456: Join the new room
up_join(p) ==
    LET pr == proc[p] IN
    /\ pr.pc = "up_join"
    /\ \E accepted \in BOOLEAN :
        /\ log' = append_pdu(
               Builder(pr.room_id, pr.body.sender_id, RoomMember,
                       Some(pr.body.sender_id),
                       MemberContent("join", pr.body.sender_id, None)),
               accepted, log)
        /\ proc' = [proc EXCEPT ![p] =
               Try(pr, accepted,
                   [pr EXCEPT !.pc = "up_transfer", !.i = 1])]
    /\ UNCHANGED <<alias_roomid, public_rooms, minted, encryption_disabled>>

\* lines 471-491: Replicate transferable state events to the new room.  When
\* the list is exhausted the handler stands before the alias loop, with the
\* aliases the registry has for the old room at that moment (`listed`, kept
\* for the claims).
up_transfer(p) ==
    LET pr == proc[p]
        j == NextTransfer(pr.body.room_id, pr.i, log)
    IN
    /\ pr.pc = "up_transfer"
    /\ \E accepted \in BOOLEAN :
        IF j > Len(transferable_state_events)
        THEN /\ accepted
             /\ proc' = [proc EXCEPT ![p] =
                    [pr EXCEPT !.pc = "up_aliases", !.i = j,
                               !.listed = room_aliases(pr.body.room_id,
                                                       alias_roomid)]]
             /\ log' = log
        ELSE /\ log' = append_pdu(
                    Builder(pr.room_id, pr.body.sender_id,
                            transferable_state_events[j], Some(""),
                            event_content(pr.body.room_id,
                                          transferable_state_events[j], log)),
                    accepted, log)
             /\ proc' = [proc EXCEPT ![p] =
                    Try([pr EXCEPT !.i = j], accepted,
                        [pr EXCEPT !.i = j + 1])]
    /\ UNCHANGED <<alias_roomid, public_rooms, minted, encryption_disabled>>

rebind_room_Old(pr) == pr.body.room_id

\* line 496: Some(&replacement_room), the room an alias is rebound to
rebind_room(pr) == pr.room_id

\* lines 493-497: Moves any local aliases to the new room.  The iterator
\* yields, in no fixed order, the aliases of the old room it has not yielded
\* before; filter_map(|r| r.ok()) passes over an entry that is an Err.
up_aliases(p) ==
    LET pr == proc[p]
        rest == room_aliases(pr.body.room_id, alias_roomid) \ pr.visited
    IN
    /\ pr.pc = "up_aliases"
    /\ IF rest = {}
       THEN /\ proc' = [proc EXCEPT ![p] = Goto(pr, "up_power_levels")]
            /\ alias_roomid' = alias_roomid
       ELSE \E alias \in rest, entry_ok \in BOOLEAN, db_ok \in BOOLEAN :
            LET seen == [pr EXCEPT !.visited = @ \cup {alias}] IN
            IF ~entry_ok
            THEN /\ db_ok
                 /\ proc' = [proc EXCEPT ![p] =
                                [seen EXCEPT !.skipped = @ \cup {alias}]]
                 /\ alias_roomid' = alias_roomid
            ELSE IF ~db_ok
            THEN /\ proc' = [proc EXCEPT ![p] =
                        Return([seen EXCEPT !.rebind_failed = @ \cup {alias}],
                               Err("BadDatabase"))]
                 /\ alias_roomid' = alias_roomid
            ELSE /\ proc' = [proc EXCEPT ![p] = seen]
                 /\ alias_roomid' = set_alias(alias, rebind_room(pr),
                                               alias_roomid)
    /\ UNCHANGED <<log, public_rooms, minted, encryption_disabled>>

\* lines 499-517: Get the old room power levels, and raise events_default
\* and invite in them
up_power_levels(p) ==
    LET pr == proc[p]
        old == room_state_get(pr.body.room_id, RoomPowerLevels, "", log)
        content == IF IsSome(old)
                   THEN deserialize_power_levels(Unwrap(old).content)
                   ELSE None
    IN
    /\ pr.pc = "up_power_levels"
    /\ proc' = [proc EXCEPT ![p] =
            IF content = None
            THEN Return(pr, Err("BadDatabase"))
            ELSE Goto([pr EXCEPT !.power_levels =
                                    Some(LockedDown(Unwrap(content)))],
                      "up_lock")]
    /\ UNCHANGED <<log, alias_roomid, public_rooms, minted,
                   encryption_disabled>>

\* lines 519-538: Modify the power levels in the old room, then return the
\* replacement room id
up_lock(p) ==
    LET pr == proc[p] IN
    /\ pr.pc = "up_lock"
    /\ \E accepted \in BOOLEAN :
        /\ log' = append_pdu(
                Builder(pr.body.room_id, pr.body.sender_id, RoomPowerLevels,
                        Some(""), Unwrap(pr.power_levels)),
                accepted, log)
        /\ proc' = [proc EXCEPT ![p] =
                LET tried == [pr EXCEPT !.lock_accepted = accepted]
                IN ok_discard(tried, accepted, Return(tried, Ok(pr.room_id)))]
    /\ UNCHANGED <<alias_roomid, public_rooms, minted, encryption_disabled>>

UpgradeSteps(p) ==
    \/ up_tombstone(p)
    \/ up_create(p)
    \/ up_join(p)
    \/ up_transfer(p)
    \/ up_aliases(p)
    \/ up_power_levels(p)
    \/ up_lock(p)

(***************************************************************************)
(* Requests                                                                *)
(***************************************************************************)
Json(value) == [valid |-> TRUE, value |-> value]
BadJson == [valid |-> FALSE, value |-> [text |-> "{"]]

EncryptionEntry ==
    [event_type |-> RoomEncryption, state_key |-> Some(""),
     content |-> Json([algorithm |-> "m.megolm.v1.aes-sha2"])]
JoinRulesEntry ==
    [event_type |-> RoomJoinRules, state_key |-> Some(""),
     content |-> Json([join_rule |-> "knock"])]
ServerAclEntry ==
    [event_type |-> RoomServerAcl, state_key |-> Some(""),
     content |-> Json([allow |-> "*"])]
BadEntry ==
    [event_type |-> RoomAvatar, state_key |-> Some(""), content |-> BadJson]

InitialStateEntries == {EncryptionEntry, JoinRulesEntry, BadEntry}

\* create_room::Request with every optional field absent
PlainCreate(sender) ==
    [sender_id |-> sender,
     room_alias_name |-> None,
     creation_content |-> None,
     power_level_content_override |-> None,
     preset |-> None,
     visibility |-> None,
     initial_state |-> <<>>,
     name |-> None,
     topic |-> None,
     invite |-> <<>>,
     is_direct |-> None]

\* Requests that vary what the steps of the handler read to choose their path
ContentRequests ==
    {[PlainCreate("@alice") EXCEPT
            !.room_alias_name = a,
            !.visibility = v,
            !.power_level_content_override = o,
            !.initial_state = st,
            !.name = n,
            !.topic = t,
            !.invite = inv] :
        a \in {None, Some("lobby"), Some(BadLocalpart)},
        v \in {None, Some("public")},
        o \in {None, Some(BadJson)},
        st \in SeqsUpTo(InitialStateEntries, MaxInitialState),
        n \in {None, Some("Lobby"), Some(NameTooLong)},
        t \in {None, Some("Welcome")},
        inv \in SeqsUpTo(Users, MaxInvite)}

\* Requests whose rooms differ in what a later upgrade reads: the aliases,
\* the federate flag, the transferable state and the power levels
SeedRequests ==
    {[PlainCreate("@alice") EXCEPT
        !.room_alias_name = Some("lobby"),
        !.creation_content = Some([federate |-> FALSE, predecessor |-> None]),
        !.name = Some("Lobby")],
     [PlainCreate("@alice") EXCEPT
        !.room_alias_name = Some("lobby"),
        !.power_level_content_override = Some(Json([users_default |-> 10])),
        !.initial_state = <<ServerAclEntry, EncryptionEntry>>],
     [PlainCreate("@alice") EXCEPT
        !.power_level_content_override =
            Some(Json([DefaultPowerLevels(PlainCreate("@alice"))
                        EXCEPT !.users_default = 60])),
        !.topic = Some("Welcome"),
        !.invite = <<"@bob">>,
        !.visibility = Some("public")],
     [PlainCreate("@alice") EXCEPT
        !.room_alias_name = Some("lobby"),
        !.power_level_content_override = Some(Json([type_error |-> TRUE]))]}

\* The rooms that exist: those with a create event
ExistingRooms ==
    {r \in DOMAIN log : IsSome(room_state_get(r, RoomCreate, "", log))}

VersionStrings == {"6", "5", "4", ""}
UpgradeSenders == {"@bob"}

\* upgrade_room::Request for an existing room
UpgradeRequests ==
    {[sender_id |-> u, room_id |-> r, new_version |-> v] :
        u \in UpgradeSenders, r \in ExistingRooms, v \in VersionStrings}

\* Requests that differ in the alias and the visibility they ask for
AliasRequests ==
    {[PlainCreate("@alice") EXCEPT
            !.room_alias_name = a,
            !.visibility = v,
            !.initial_state = <<ServerAclEntry>>,
            !.name = Some("Lobby"),
            !.topic = Some("Welcome"),
            !.invite = <<"@bob">>] :
        a \in {None, Some("lobby"), Some("dev")},
        v \in {None, Some("public")}}

Init ==
    /\ log = [r \in RoomIds |-> <<>>]
    /\ alias_roomid = [a \in Aliases |-> None]
    /\ public_rooms = {}
    /\ minted = 0
    /\ encryption_disabled \in BOOLEAN
    /\ proc = [p \in Procs |-> IdleProc]

\* One createRoom request on a fresh server, every step of it
CreateBegin ==
    /\ proc["p1"].pc = "idle"
    /\ \E body \in ContentRequests : create_room_route("p1", body)

NextCreate == CreateBegin \/ CreateSteps("p1")

SpecCreate == Init /\ [][NextCreate]_vars


(***************************************************************************)
(* What the claims speak of                                                *)
(***************************************************************************)
Membership(content) ==
    IF "membership" \in DOMAIN content THEN content.membership ELSE ""

\* An event as the claims describe it: type, state key, membership
Shape(e) == <<e.event_type, e.state_key, Membership(e.content)>>
Shapes(events) == [i \in 1..Len(events) |-> Shape(events[i])]

IsPrefix(s, t) == Len(s) <= Len(t) /\ s = SubSeq(t, 1, Len(s))

Count(events, shape) ==
    Cardinality({i \in 1..Len(events) : Shape(events[i]) = shape})
CountType(events, event_type) ==
    Cardinality({i \in 1..Len(events) : events[i].event_type = event_type})
Occurrences(s, x) == Cardinality({i \in 1..Len(s) : s[i] = x})

\* The initial_state entries that are to be appended: all of them, but for
\* the Encryption entries when the server disables encryption
KeptEntries(entries) ==
    SelectSeq(entries,
              LAMBDA e : ~(encryption_disabled /\ e.event_type = RoomEncryption))
EntryShape(entry) ==
    <<entry.event_type, entry.state_key, Membership(entry.content.value)>>
EntryShapes(entries) ==
    LET kept == KeptEntries(entries)
    IN [i \in 1..Len(kept) |-> EntryShape(kept[i])]

FixedShapes(body) ==
    << <<RoomCreate, Some(""), "">>,
       <<RoomMember, Some(body.sender_id), "join">>,
       <<RoomPowerLevels, Some(""), "">>,
       <<RoomJoinRules, Some(""), "">>,
       <<RoomHistoryVisibility, Some(""), "">>,
       <<RoomGuestAccess, Some(""), "">> >>
NameShapes(body) ==
    IF IsSome(body.name) THEN << <<RoomName, Some(""), "">> >> ELSE <<>>
TopicShapes(body) ==
    IF IsSome(body.topic) THEN << <<RoomTopic, Some(""), "">> >> ELSE <<>>
InviteShapes(body) ==
    [i \in 1..Len(body.invite) |->
        <<RoomMember, Some(body.invite[i]), "invite">>]

\* The order of events the specification gives for a createRoom request
ExpectedShapes(body) ==
    FixedShapes(body) \o EntryShapes(body.initial_state) \o NameShapes(body)
        \o TopicShapes(body) \o InviteShapes(body)

CreateOf(p) == proc[p].op = "create"
CreateOk(p) ==
    CreateOf(p) /\ proc[p].pc = "done" /\ proc[p].result.status = "ok"
CreateFailed(p) ==
    CreateOf(p) /\ proc[p].pc = "done" /\ proc[p].result.status = "error"

\* C1: at every moment of a createRoom request the new room's log is a
\* prefix of Create, Member(Join) of the creator, PowerLevels, JoinRules,
\* HistoryVisibility, GuestAccess, the initial-state entries to append in
\* caller order, Name if supplied, Topic if supplied, one Member(Invite) per
\* invited user in caller order; and it is that whole sequence when the
\* request has succeeded.
C1_EventOrder ==
    \A p \in Procs :
        CreateOf(p) =>
            /\ IsPrefix(Shapes(log[proc[p].room_id]),
                        ExpectedShapes(proc[p].body))
            /\ CreateOk(p) =>
                Shapes(log[proc[p].room_id]) = ExpectedShapes(proc[p].body)

C1_Witness ==
    /\ CreateOk("p1")
    /\ Len(proc["p1"].body.initial_state) = 2
    /\ IsSome(proc["p1"].body.name)
    /\ IsSome(proc["p1"].body.topic)
    /\ proc["p1"].body.invite = <<"@bob", "@alice">>
    /\ Len(log[proc["p1"].room_id]) = 12

\* The number of appends of the request that succeeded before the step at
\* which it failed
StepsBefore(pr) ==
    LET body == pr.body
        kept == Len(KeptEntries(body.initial_state))
        name == Len(NameShapes(body))
        topic == Len(TopicShapes(body))
    IN CASE pr.failed_at \in {"cr_alias", "cr_create"} -> 0
         [] pr.failed_at = "cr_join" -> 1
         [] pr.failed_at = "cr_power_levels" -> 2
         [] pr.failed_at = "cr_join_rules" -> 3
         [] pr.failed_at = "cr_history_visibility" -> 4
         [] pr.failed_at = "cr_guest_access" -> 5
         [] pr.failed_at = "cr_initial_state" ->
                6 + Len(KeptEntries(SubSeq(body.initial_state, 1, pr.i - 1)))
         [] pr.failed_at = "cr_name" -> 6 + kept
         [] pr.failed_at = "cr_topic" -> 6 + kept + name
         [] pr.failed_at = "cr_invite" -> 6 + kept + name + topic + (pr.i - 1)
         [] OTHER -> 6 + kept + name + topic + Len(body.invite)

\* C2: when a step of createRoom fails, the request has ended with an error
\* and the room's log is exactly the events of the steps before the failing
\* one, in order; an unparseable power-level override or initial-state entry
\* and an invalid name fail their step with the validation error.
C2_FailFastNoRollback ==
    \A p \in Procs :
        CreateFailed(p) =>
            LET pr == proc[p] IN
            /\ Shapes(log[pr.room_id]) =
                    SubSeq(ExpectedShapes(pr.body), 1, StepsBefore(pr))
            /\ pr.result.kind \in
                    {"InvalidParam", "RoomInUse", "BadDatabase", "BadJson",
                     "Forbidden"}
            /\ (pr.failed_at = "cr_name"
                    /\ pr.body.name = Some(NameTooLong))
                => pr.result.kind = "InvalidParam"
            /\ (pr.failed_at = "cr_power_levels"
                    /\ pr.body.power_level_content_override = Some(BadJson))
                => pr.result.kind = "BadJson"
            /\ (pr.failed_at = "cr_initial_state"
                    /\ pr.body.initial_state[pr.i] = BadEntry)
                => pr.result.kind = "BadJson"

C2_Witness ==
    /\ CreateFailed("p1")
    /\ proc["p1"].failed_at = "cr_initial_state"
    /\ proc["p1"].i = 2
    /\ proc["p1"].result.kind = "Forbidden"
    /\ Len(log[proc["p1"].room_id]) = 7

\* C4 as claimed: after a successful createRoom the log holds exactly one
\* Create, PowerLevels, JoinRules, HistoryVisibility and GuestAccess, a Name
\* and a Topic iff supplied, one Member(Join) of the creator and one
\* Member(Invite) per invitee, whatever the initial state and invite list.
C4_ExactlyOneEach ==
    \A p \in Procs :
        CreateOk(p) =>
            LET pr == proc[p]
                events == log[pr.room_id]
            IN
            /\ \A t \in {RoomCreate, RoomPowerLevels, RoomJoinRules,
                         RoomHistoryVisibility, RoomGuestAccess} :
                    CountType(events, t) = 1
            /\ CountType(events, RoomName) = Len(NameShapes(pr.body))
            /\ CountType(events, RoomTopic) = Len(TopicShapes(pr.body))
            /\ Count(events,
                     <<RoomMember, Some(pr.body.sender_id), "join">>) = 1
            /\ \A u \in Range(pr.body.invite) :
                    Count(events, <<RoomMember, Some(u), "invite">>) = 1

\* C4 amended: the steps of the handler itself append exactly one event of
\* each of those kinds; every initial-state entry that is appended adds one
\* event of its own type, and a user listed k times in the invite list gets
\* k Member(Invite) events.
C4_OneEachPlusCallerEntries ==
    \A p \in Procs :
        CreateOk(p) =>
            LET pr == proc[p]
                events == log[pr.room_id]
                entries == KeptEntries(pr.body.initial_state)
                ofType(t) ==
                    Cardinality({i \in 1..Len(entries) :
                                    entries[i].event_type = t})
                ofShape(sh) ==
                    Cardinality({i \in 1..Len(entries) :
                                    EntryShape(entries[i]) = sh})
            IN
            /\ \A t \in {RoomCreate, RoomPowerLevels, RoomJoinRules,
                         RoomHistoryVisibility, RoomGuestAccess} :
                    CountType(events, t) = 1 + ofType(t)
            /\ CountType(events, RoomName) =
                    Len(NameShapes(pr.body)) + ofType(RoomName)
            /\ CountType(events, RoomTopic) =
                    Len(TopicShapes(pr.body)) + ofType(RoomTopic)
            /\ Count(events, <<RoomMember, Some(pr.body.sender_id), "join">>)
                    = 1 + ofShape(<<RoomMember, Some(pr.body.sender_id),
                                    "join">>)
            /\ \A u \in Users :
                    Count(events, <<RoomMember, Some(u), "invite">>)
                    = Occurrences(pr.body.invite, u)
                        + ofShape(<<RoomMember, Some(u), "invite">>)

C4_Witness ==
    /\ CreateOk("p1")
    /\ proc["p1"].body.initial_state = <<JoinRulesEntry, JoinRulesEntry>>
    /\ proc["p1"].body.invite = <<"@bob", "@bob">>
    /\ IsSome(proc["p1"].body.name)
    /\ proc["p1"].body.topic = None


\* createRoom requests one after another, so that a request meets the
\* aliases the earlier ones bound
AliasCreateRequest ==
    \E body \in AliasRequests : create_room_route("p1", body)

NextAlias == AliasCreateRequest \/ CreateSteps("p1")

SpecAlias == Init /\ [][NextAlias]_vars

RequestedAlias(body) ==
    IF IsSome(body.room_alias_name)
    THEN RoomAliasId_try_from(Unwrap(body.room_alias_name))
    ELSE None

\* A step that is the arrival of a createRoom request of p
CreateArrives(p) == Free(p) /\ proc'[p] # proc[p] /\ proc'[p].op = "create"

\* C3: a createRoom request whose alias resolves when it arrives ends at
\* once with the alias-in-use error and writes nothing: no log, no alias and
\* no directory entry changes, and its room never has an event.
C3_AliasInUseWritesNothing ==
    /\ [][\A p \in Procs :
            (/\ CreateArrives(p)
             /\ IsSome(RequestedAlias(proc'[p].body))
             /\ IsSome(alias_roomid[Unwrap(RequestedAlias(proc'[p].body))]))
            => /\ proc'[p].pc = "done"
               /\ proc'[p].result = Err("RoomInUse")
               /\ log' = log
               /\ alias_roomid' = alias_roomid
               /\ public_rooms' = public_rooms]_vars
    /\ [](\A p \in Procs :
            (CreateFailed(p) /\ proc[p].result.kind = "RoomInUse")
            => /\ log[proc[p].room_id] = <<>>
               /\ proc[p].room_id \notin public_rooms
               /\ \A a \in Aliases : alias_roomid[a] # Some(proc[p].room_id))

C3_Witness ==
    /\ CreateFailed("p1")
    /\ proc["p1"].result.kind = "RoomInUse"
    /\ proc["p1"].body.room_alias_name = Some("lobby")
    /\ proc["p1"].body.visibility = Some("public")
    /\ alias_roomid[Unwrap(RoomAliasId_try_from("lobby"))] = Some(1)

(***************************************************************************)
(* The server: one request after another                                   *)
(***************************************************************************)
\* The alias directory route gives an existing room a further alias, one
\* that nothing resolves yet (AliasRegistry.bind)
create_alias_route ==
    /\ \A p \in Procs : Free(p)
    /\ \E alias \in Aliases \ {Unwrap(RoomAliasId_try_from("lobby"))},
          room \in ExistingRooms :
        /\ alias_roomid[alias] = None
        /\ alias_roomid' = set_alias(alias, room, alias_roomid)
    /\ UNCHANGED <<log, public_rooms, minted, encryption_disabled, proc>>

\* The first request creates the room that the later requests upgrade
CreateRequest ==
    /\ minted = 0
    /\ \E body \in SeedRequests : create_room_route("p1", body)

UpgradeRequest ==
    \E body \in UpgradeRequests : upgrade_room_route("p1", body)

Next ==
    \/ CreateRequest
    \/ CreateSteps("p1")
    \/ create_alias_route
    \/ UpgradeRequest
    \/ UpgradeSteps("p1")

Spec == Init /\ [][Next]_vars


UpgradeOf(p) == proc[p].op = "upgrade"
UpgradeDone(p) == UpgradeOf(p) /\ proc[p].pc = "done"
UpgradeOk(p) == UpgradeDone(p) /\ proc[p].result.status = "ok"

TombstonesFor(old, replacement) ==
    {i \in 1..Len(log[old]) :
        /\ log[old][i].event_type = RoomTombstone
        /\ log[old][i].content.replacement_room = replacement}

\* C5: whenever the replacement room of an upgradeRoom request has a create
\* event, the request's tombstone is in the old room's log and names the
\* replacement room, and the create event's predecessor is the old room id
\* with the event id of that tombstone; and every create event with a
\* predecessor points at a tombstone that names its room.
C5_TombstoneBeforeCreate ==
    /\ \A p \in Procs :
        LET pr == proc[p]
            create == room_state_get(pr.room_id, RoomCreate, "", log)
        IN (UpgradeOf(p) /\ pr.room_id # 0 /\ IsSome(create)) =>
            /\ IsSome(pr.tombstone_event_id)
            /\ Unwrap(create).content.predecessor =
                    Some([room_id |-> pr.body.room_id,
                          event_id |-> Unwrap(pr.tombstone_event_id)])
            /\ \E i \in TombstonesFor(pr.body.room_id, pr.room_id) :
                    log[pr.body.room_id][i].event_id =
                        Unwrap(pr.tombstone_event_id)
    /\ \A r \in RoomIds :
        \A k \in 1..Len(log[r]) :
            (log[r][k].event_type = RoomCreate
                /\ IsSome(log[r][k].content.predecessor))
            => LET pre == Unwrap(log[r][k].content.predecessor)
               IN \E i \in TombstonesFor(pre.room_id, r) :
                    log[pre.room_id][i].event_id = pre.event_id

C5_Witness ==
    /\ UpgradeOk("p1")
    /\ Len(log[proc["p1"].room_id]) >= 3
    /\ Len(log[proc["p1"].body.room_id]) >= 8

\* A step that is the arrival of an upgradeRoom request of p
UpgradeArrives(p) == Free(p) /\ proc'[p] # proc[p] /\ proc'[p].op = "upgrade"

Unchanged == UNCHANGED <<log, alias_roomid, public_rooms, minted>>

\* C6: an upgradeRoom request for a room version other than 5 and 6 ends at
\* once with the unsupported-version error, and changes no log, no alias and
\* no directory entry (neither does one whose version string is no room
\* version id at all, which ends in the handler's panic).
C6_UnsupportedVersionWritesNothing ==
    /\ [][\A p \in Procs :
            (UpgradeArrives(p) /\ proc'[p].body.new_version \notin {"5", "6"})
            => /\ proc'[p].pc = "done"
               /\ proc'[p].room_id = 0
               /\ Unchanged
               /\ IF proc'[p].body.new_version = ""
                  THEN proc'[p].result.status = "panic"
                  ELSE proc'[p].result = Err("UnsupportedRoomVersion")]_vars
    /\ [](\A p \in Procs :
            (UpgradeOf(p) /\ proc[p].body.new_version \notin {"5", "6"})
            => proc[p].pc = "done")

C6_Witness ==
    /\ UpgradeDone("p1")
    /\ proc["p1"].body.new_version = "4"
    /\ proc["p1"].result = Err("UnsupportedRoomVersion")
    /\ Len(log[proc["p1"].body.room_id]) >= 6

\* C7: when the tombstone append is rejected, upgradeRoom ends with that
\* error and has changed nothing: the old room's log (so its power levels
\* too), the aliases and the directory are as before, and the replacement
\* room has no event, then and afterwards.
C7_RejectedTombstoneWritesNothing ==
    /\ [][\A p \in Procs :
            (/\ proc[p].pc = "up_tombstone"
             /\ proc'[p] # proc[p]
             /\ TombstonesFor(proc[p].body.room_id, proc[p].room_id)' = {})
            => /\ proc'[p].pc = "done"
               /\ proc'[p].result = Err("Forbidden")
               /\ Unchanged
               /\ log'[proc[p].room_id] = <<>>]_vars
    /\ [](\A p \in Procs :
            (UpgradeDone(p) /\ proc[p].failed_at = "up_tombstone")
            => /\ log[proc[p].room_id] = <<>>
               /\ \A a \in Aliases : alias_roomid[a] # Some(proc[p].room_id))

C7_Witness ==
    /\ UpgradeDone("p1")
    /\ proc["p1"].failed_at = "up_tombstone"
    /\ room_aliases(proc["p1"].body.room_id, alias_roomid) # {}
    /\ IsSome(room_state_get(proc["p1"].body.room_id, RoomPowerLevels, "",
                             log))

\* The request has passed the state transfer (steps 1 to 7 have succeeded)
PastTransfer(p) ==
    UpgradeOf(p) /\ proc[p].i = Len(transferable_state_events) + 1

\* C8 as claimed: once steps 1 to 7 of upgradeRoom have succeeded, the
\* request returns the replacement room id, whatever happens in the alias
\* migration and in the lock-down of the old room.
C8_BestEffortNeverFails ==
    \A p \in Procs :
        (PastTransfer(p) /\ proc[p].pc = "done")
        => proc[p].result = Ok(proc[p].room_id)

\* C9 as claimed: when upgradeRoom has returned after reaching the alias
\* migration, every alias that resolved to the old room when the migration
\* began, but for those whose own listing entry or rebind failed, resolves
\* to the replacement room.
C9_OtherAliasesStillRebound ==
    \A p \in Procs :
        (PastTransfer(p) /\ proc[p].pc = "done")
        => \A a \in proc[p].listed \ (proc[p].skipped \cup proc[p].rebind_failed) :
                alias_roomid[a] = Some(proc[p].room_id)

\* C10: when the lock-down append to the old room is rejected, upgradeRoom
\* still returns the replacement room id, and the old room's log and current
\* power levels are what they were before the attempt.
C10_RejectedLockDownStillOk ==
    [][\A p \in Procs :
        (/\ proc[p].pc = "up_lock"
         /\ proc'[p] # proc[p]
         /\ ~proc'[p].lock_accepted)
        => /\ proc'[p].pc = "done"
           /\ proc'[p].result = Ok(proc[p].room_id)
           /\ log'[proc[p].body.room_id] = log[proc[p].body.room_id]
           /\ room_state_get(proc[p].body.room_id, RoomPowerLevels, "", log')
                = room_state_get(proc[p].body.room_id, RoomPowerLevels, "",
                                 log)]_vars

C10_Witness ==
    /\ UpgradeOk("p1")
    /\ ~proc["p1"].lock_accepted
    /\ proc["p1"].listed # {}
    /\ Unwrap(room_state_get(proc["p1"].body.room_id, RoomPowerLevels, "",
                             log)).content.users_default = 10


(***************************************************************************)
(* Upgrades of rooms that differ in their power levels                     *)
(***************************************************************************)
\* users_default values on both sides of the floor of line 512
UsersDefaultLevels == {0, 10, 49, 50, 60}

\* power_level_content_override values: one that names users_default alone,
\* and one that names every field and a field the event type does not have
LevelOverrides ==
    {Json([users_default |-> ud]) : ud \in UsersDefaultLevels}
    \cup {Json([ban |-> 70, events |-> <<>>, events_default |-> 5,
                invite |-> 90, kick |-> 60, redact |-> 55,
                state_default |-> 65, users |-> [u \in {"@bob"} |-> 100],
                users_default |-> ud, notifications |-> [room |-> 20],
                custom |-> "kept"]) : ud \in {10, 60}}

LevelRequests ==
    {[PlainCreate("@alice") EXCEPT
            !.room_alias_name = Some("lobby"),
            !.visibility = Some("public"),
            !.power_level_content_override = o,
            !.initial_state = <<ServerAclEntry>>,
            !.name = Some("Lobby"),
            !.topic = Some("Welcome"),
            !.invite = <<"@bob">>] :
        o \in {None} \cup {Some(j) : j \in LevelOverrides}}

LevelCreate ==
    /\ minted = 0
    /\ \E body \in LevelRequests : create_room_route("p1", body)

LevelUpgrade ==
    \E r \in ExistingRooms :
        upgrade_room_route("p1", [sender_id |-> "@bob", room_id |-> r,
                                  new_version |-> "6"])

NextLevels ==
    \/ LevelCreate
    \/ CreateSteps("p1")
    \/ LevelUpgrade
    \/ UpgradeSteps("p1")

SpecLevels == Init /\ [][NextLevels]_vars

\* The fields of a power-levels event other than events_default and invite
OtherLevelFields ==
    {"users", "events", "ban", "kick", "redact", "state_default",
     "users_default", "notifications"}

\* A step of p that appends the lock-down event to the old room
LockAppended(p) ==
    /\ proc[p].pc = "up_lock"
    /\ proc'[p] # proc[p]
    /\ proc'[p].lock_accepted

\* C11: the lock-down event that upgradeRoom appends to the old room has the
\* old room's current power levels (as the event type reads them), but for
\* events_default and invite, which are both the greater of 50 and
\* users_default + 1: 50 for users_default 10, 61 for users_default 60.
C11_LockDownArithmetic ==
    [][\A p \in Procs :
        LockAppended(p) =>
            LET room == proc[p].body.room_id
                old == Unwrap(deserialize_power_levels(
                          Unwrap(room_state_get(room, RoomPowerLevels, "",
                                                log)).content))
                new == log'[room][Len(log'[room])]
                raised == IF old.users_default >= 50
                          THEN old.users_default + 1
                          ELSE 50
            IN /\ Len(log'[room]) = Len(log[room]) + 1
               /\ new.event_type = RoomPowerLevels
               /\ new.state_key = Some("")
               /\ DOMAIN new.content = OtherLevelFields
                                        \cup {"events_default", "invite"}
               /\ new.content.events_default = raised
               /\ new.content.invite = raised
               /\ \A f \in OtherLevelFields : new.content[f] = old[f]
               /\ old.users_default = 10 => raised = 50
               /\ old.users_default = 60 => raised = 61]_vars

C11_Witness ==
    /\ UpgradeOk("p1")
    /\ proc["p1"].lock_accepted
    /\ LET levels == Unwrap(room_state_get(proc["p1"].body.room_id,
                                           RoomPowerLevels, "", log)).content
       IN /\ levels.users_default = 60
          /\ levels.invite = 61
          /\ levels.events_default = 61
          /\ levels.ban = 70


(***************************************************************************)
(* createRoom requests that differ in preset, visibility, power-level      *)
(* override, invite list and alias                                         *)
(***************************************************************************)
Presets == {"private_chat", "public_chat", "trusted_private_chat"}
Visibilities == {"private", "public"}

OptionOverrides ==
    {Json([users_default |-> 10]),
     Json([ban |-> 70, users |-> [u \in {"@bob"} |-> 30], custom |-> "kept"])}

OptionRequests ==
    {[PlainCreate("@alice") EXCEPT
            !.room_alias_name = a,
            !.preset = ps,
            !.visibility = v,
            !.power_level_content_override = o,
            !.initial_state = <<ServerAclEntry>>,
            !.name = Some("Lobby"),
            !.topic = Some("Welcome"),
            !.invite = inv] :
        a \in {None, Some("lobby")},
        ps \in {None} \cup {Some(x) : x \in Presets},
        v \in {None} \cup {Some(x) : x \in Visibilities},
        o \in {None} \cup {Some(j) : j \in OptionOverrides},
        inv \in SeqsUpTo(Users, MaxInvite)}

OptionCreate ==
    /\ proc["p1"].pc = "idle"
    /\ \E body \in OptionRequests : create_room_route("p1", body)

NextOptions == OptionCreate \/ CreateSteps("p1")

SpecOptions == Init /\ [][NextOptions]_vars

\* The power-levels event of the room of a createRoom request, once appended
PowerLevelsOf(p) == room_state_get(proc[p].room_id, RoomPowerLevels, "", log)

\* C12: the content of createRoom's power-levels event is, without an
\* override, level 100 for the creator and for every invited user and for
\* nobody else, users_default and events_default 0, ban, kick, redact,
\* state_default, invite and notifications.room 50; with an override it is the
\* override, field for field, and nothing else.
C12_PowerLevelsDefaultsOrOverride ==
    \A p \in Procs :
        (CreateOf(p) /\ IsSome(PowerLevelsOf(p))) =>
            LET body == proc[p].body
                content == Unwrap(PowerLevelsOf(p)).content
            IN IF body.power_level_content_override = None
               THEN /\ DOMAIN content.users
                            = {body.sender_id} \cup Range(body.invite)
                    /\ \A u \in DOMAIN content.users : content.users[u] = 100
                    /\ content.users_default = 0
                    /\ content.events_default = 0
                    /\ content.ban = 50
                    /\ content.kick = 50
                    /\ content.redact = 50
                    /\ content.state_default = 50
                    /\ content.invite = 50
                    /\ content.notifications.room = 50
               ELSE content = Unwrap(body.power_level_content_override).value

C12_Witness ==
    /\ CreateOk("p1")
    /\ proc["p1"].body.invite = <<"@bob", "@bob">>
    /\ proc["p1"].body.power_level_content_override
            = Some(Json([users_default |-> 10]))
    /\ DOMAIN Unwrap(PowerLevelsOf("p1")).content = {"users_default"}


\* The current state event of a type, with empty state key, in the room of
\* the request of p
StateOf(p, event_type) == room_state_get(proc[p].room_id, event_type, "", log)

\* C13: the effective preset is the explicit one if given, else public_chat
\* for visibility public, else private_chat; the join rule is public and guest
\* access forbidden exactly when it is public_chat, invite and can_join
\* otherwise; history visibility is shared in every case.
C13_PresetEvents ==
    \A p \in Procs :
        CreateOf(p) =>
            LET body == proc[p].body
                public_chat ==
                    \/ body.preset = Some("public_chat")
                    \/ body.preset = None /\ body.visibility = Some("public")
            IN /\ IsSome(StateOf(p, RoomJoinRules)) =>
                    Unwrap(StateOf(p, RoomJoinRules)).content =
                        [join_rule |-> IF public_chat THEN "public"
                                       ELSE "invite"]
               /\ IsSome(StateOf(p, RoomGuestAccess)) =>
                    Unwrap(StateOf(p, RoomGuestAccess)).content =
                        [guest_access |-> IF public_chat THEN "forbidden"
                                          ELSE "can_join"]
               /\ IsSome(StateOf(p, RoomHistoryVisibility)) =>
                    Unwrap(StateOf(p, RoomHistoryVisibility)).content =
                        [history_visibility |-> "shared"]
               /\ CreateOk(p) =>
                    /\ IsSome(StateOf(p, RoomJoinRules))
                    /\ IsSome(StateOf(p, RoomGuestAccess))
                    /\ IsSome(StateOf(p, RoomHistoryVisibility))

C13_Witness ==
    /\ CreateOk("p1")
    /\ proc["p1"].body.preset = Some("public_chat")
    /\ proc["p1"].body.visibility = Some("private")
    /\ Unwrap(StateOf("p1", RoomJoinRules)).content.join_rule = "public"
    /\ Unwrap(StateOf("p1", RoomGuestAccess)).content.guest_access
            = "forbidden"


\* The old room's log as the state transfer of the request of p read it: the
\* lock-down event, which the request appends last of all, is not in it
OldLogAtTransfer(p) ==
    LET old == log[proc[p].body.room_id]
    IN IF UpgradeOk(p) /\ proc[p].lock_accepted
       THEN SubSeq(old, 1, Len(old) - 1)
       ELSE old

\* C14: after a successful upgradeRoom the replacement room's log is Create,
\* Member(Join) of the sender, and then, for ServerAcl, Encryption, Name,
\* Avatar, Topic, GuestAccess, HistoryVisibility, JoinRules, PowerLevels in
\* this order, one event with empty state key and the content the old room
\* had for that type when it was copied, and none for a type it had not.
C14_TransferredState ==
    \A p \in Procs :
        UpgradeOk(p) =>
            LET pr == proc[p]
                at_transfer == [log EXCEPT ![pr.body.room_id] =
                                    OldLogAtTransfer(p)]
                order == <<RoomServerAcl, RoomEncryption, RoomName,
                           RoomAvatar, RoomTopic, RoomGuestAccess,
                           RoomHistoryVisibility, RoomJoinRules,
                           RoomPowerLevels>>
                had(t) == room_state_get(pr.body.room_id, t, "", at_transfer)
                copied == SelectSeq(order, LAMBDA t : IsSome(had(t)))
                events == log[pr.room_id]
            IN /\ Len(events) = 2 + Len(copied)
               /\ Shape(events[1]) = <<RoomCreate, Some(""), "">>
               /\ Shape(events[2]) =
                        <<RoomMember, Some(pr.body.sender_id), "join">>
               /\ \A k \in 1..Len(copied) :
                    /\ events[2 + k].event_type = copied[k]
                    /\ events[2 + k].state_key = Some("")
                    /\ events[2 + k].content = Unwrap(had(copied[k])).content

C14_Witness ==
    /\ UpgradeOk("p1")
    /\ proc["p1"].lock_accepted
    /\ Len(log[proc["p1"].room_id]) = 8
    /\ log[proc["p1"].room_id][3].event_type = RoomServerAcl
    /\ log[proc["p1"].room_id][4].event_type = RoomEncryption
    /\ log[proc["p1"].room_id][8].content = [users_default |-> 10]


\* The steps of create_room_route that end in an append
AppendSteps ==
    {"cr_create", "cr_join", "cr_power_levels", "cr_join_rules",
     "cr_history_visibility", "cr_guest_access", "cr_initial_state",
     "cr_name", "cr_topic", "cr_invite"}

\* C15: the alias is bound and the room is listed only when every append of
\* the request has succeeded; a request that failed at an append has left the
\* alias unbound and the room unlisted; after a successful request the alias
\* it asked for resolves to the returned room, and the room is listed exactly
\* when the request's visibility is public, whatever its preset.
C15_SideEffectsAfterAppends ==
    \A p \in Procs :
        CreateOf(p) =>
            LET pr == proc[p]
                bound == room_aliases(pr.room_id, alias_roomid)
                listed == pr.room_id \in public_rooms
            IN /\ (bound # {} \/ listed) =>
                    Shapes(log[pr.room_id]) = ExpectedShapes(pr.body)
               /\ (CreateFailed(p) /\ pr.failed_at \in AppendSteps) =>
                    /\ bound = {}
                    /\ IsSome(pr.alias) => alias_roomid[Unwrap(pr.alias)] = None
                    /\ ~listed
               /\ CreateOk(p) =>
                    /\ pr.result = Ok(pr.room_id)
                    /\ bound = IF IsSome(RequestedAlias(pr.body))
                               THEN {Unwrap(RequestedAlias(pr.body))}
                               ELSE {}
                    /\ listed <=> pr.body.visibility = Some("public")

C15_Witness ==
    /\ CreateOk("p1")
    /\ proc["p1"].body.preset = Some("private_chat")
    /\ proc["p1"].body.visibility = Some("public")
    /\ alias_roomid[Unwrap(RoomAliasId_try_from("lobby"))]
            = Some(proc["p1"].room_id)
    /\ proc["p1"].room_id \in public_rooms


\* C16: when the server disables encryption, the room of a createRoom request
\* never has an Encryption event, no Encryption entry of initial_state is the
\* step at which the request fails, and after a successful request the log
\* is what the request without its Encryption entries gives: the other
\* entries in caller order after the six fixed events, then Name, Topic and
\* the invites.  When the server does not disable encryption, every entry is
\* appended, the Encryption entries too.
C16_EncryptionEntriesSkipped ==
    \A p \in Procs :
        CreateOf(p) =>
            LET pr == proc[p]
                entries == pr.body.initial_state
                others == SelectSeq(entries,
                              LAMBDA e : e.event_type # RoomEncryption)
                expected == IF encryption_disabled THEN others ELSE entries
                events == log[pr.room_id]
            IN /\ encryption_disabled =>
                    /\ CountType(events, RoomEncryption) = 0
                    /\ (CreateFailed(p) /\ pr.failed_at = "cr_initial_state")
                        => entries[pr.i].event_type # RoomEncryption
               /\ CreateOk(p) =>
                    /\ pr.result = Ok(pr.room_id)
                    /\ Len(events) = 6 + Len(expected)
                            + Len(NameShapes(pr.body))
                            + Len(TopicShapes(pr.body)) + Len(pr.body.invite)
                    /\ \A k \in 1..Len(expected) :
                        /\ events[6 + k].event_type = expected[k].event_type
                        /\ events[6 + k].state_key = expected[k].state_key
                        /\ events[6 + k].content = expected[k].content.value
                    /\ ~encryption_disabled =>
                        CountType(events, RoomEncryption)
                            = Occurrences([k \in 1..Len(entries) |->
                                              entries[k].event_type],
                                          RoomEncryption)

C16_Witness ==
    /\ CreateOk("p1")
    /\ encryption_disabled
    /\ proc["p1"].body.initial_state = <<EncryptionEntry, JoinRulesEntry>>
    /\ Len(log[proc["p1"].room_id]) = 7
    /\ log[proc["p1"].room_id][7].content = [join_rule |-> "knock"]


\* The old room's current state holds a tombstone that names room r
TombstoneNames(old, r) ==
    LET tomb == room_state_get(old, RoomTombstone, "", log)
    IN IsSome(tomb) /\ Unwrap(tomb).content.replacement_room = r

\* Room r has a create event whose predecessor is the old room with the
\* event id of the old room's current tombstone
CreateLinksTo(r, old) ==
    LET tomb == room_state_get(old, RoomTombstone, "", log)
        create == room_state_get(r, RoomCreate, "", log)
    IN /\ IsSome(tomb)
       /\ IsSome(create)
       /\ Unwrap(create).content.predecessor =
            Some([room_id |-> old, event_id |-> Unwrap(tomb).event_id])

\* C17 as claimed: whenever upgradeRoom has returned, with success or with an
\* error, the old room's current state holds a tombstone naming a room iff
\* that room has a create event whose predecessor names the old room and that
\* tombstone.
C17_MutuallyConsistent ==
    \A p \in Procs :
        UpgradeDone(p) =>
            \A r \in RoomIds :
                TombstoneNames(proc[p].body.room_id, r)
                    <=> CreateLinksTo(r, proc[p].body.room_id)

\* C17 amended: when upgradeRoom has returned after minting the replacement
\* room id, then: if it failed at the tombstone append, the old room has no
\* tombstone naming the replacement room, which has no event; if it failed
\* between the tombstone append and the append of the new create event, the
\* old room's current tombstone names the replacement room, which has no
\* event; in every other case, success or a later error, the old room's
\* current tombstone names the replacement room and that room's create event
\* has the old room and that tombstone as predecessor.  A create event that
\* links to the old room's tombstone is always in the room the tombstone
\* names.
C17_ConsistentOncePastCreate ==
    \A p \in Procs :
        (UpgradeDone(p) /\ proc[p].room_id # 0) =>
            LET pr == proc[p]
                old == pr.body.room_id
            IN /\ CASE pr.failed_at = "up_tombstone" ->
                        /\ ~TombstoneNames(old, pr.room_id)
                        /\ log[pr.room_id] = <<>>
                    [] pr.failed_at = "up_create" ->
                        /\ TombstoneNames(old, pr.room_id)
                        /\ log[pr.room_id] = <<>>
                    [] OTHER ->
                        /\ TombstoneNames(old, pr.room_id)
                        /\ CreateLinksTo(pr.room_id, old)
               /\ \A r \in RoomIds :
                    CreateLinksTo(r, old) => TombstoneNames(old, r)

C17_Witness ==
    /\ UpgradeDone("p1")
    /\ proc["p1"].failed_at = "up_create"
    /\ proc["p1"].result = Err("Forbidden")
    /\ TombstoneNames(proc["p1"].body.room_id, proc["p1"].room_id)
    /\ log[proc["p1"].room_id] = <<>>


\* The events that follow the tombstone of the request of p in the old room
AfterTombstone(p) ==
    LET old == log[proc[p].body.room_id]
    IN IF IsSome(proc[p].tombstone_event_id)
       THEN SubSeq(old, Unwrap(proc[p].tombstone_event_id)[2] + 1, Len(old))
       ELSE <<>>

\* C18: with no other writer, the old room gets the lock-down event in the
\* last step of the request, in which nothing is appended to the replacement
\* room and no alias is rebound; while the request runs nothing follows its
\* tombstone in the old room; and the power levels copied into the
\* replacement room are the old room's from before the lock-down, with its
\* events_default and invite, not the raised ones.
C18_LockDownLast ==
    /\ [][\A p \in Procs :
            (/\ UpgradeOf(p)
             /\ proc'[p] = [proc[p] EXCEPT !.pc = proc'[p].pc,
                                           !.result = proc'[p].result,
                                           !.lock_accepted =
                                                proc'[p].lock_accepted,
                                           !.failed_at = proc'[p].failed_at]
             /\ log'[proc[p].body.room_id] # log[proc[p].body.room_id]
             /\ IsSome(proc[p].tombstone_event_id))
            => /\ proc[p].pc = "up_lock"
               /\ proc'[p].pc = "done"
               /\ log'[proc[p].room_id] = log[proc[p].room_id]
               /\ alias_roomid' = alias_roomid]_vars
    /\ [](\A p \in Procs :
            /\ (UpgradeOf(p) /\ proc[p].pc # "done") => AfterTombstone(p) = <<>>
            /\ UpgradeOk(p) =>
                LET before == room_state_get(proc[p].body.room_id,
                                  RoomPowerLevels, "",
                                  [log EXCEPT ![proc[p].body.room_id] =
                                        OldLogAtTransfer(p)])
                    copied == room_state_get(proc[p].room_id,
                                  RoomPowerLevels, "", log)
                IN /\ IsSome(before)
                   /\ IsSome(copied)
                   /\ Unwrap(copied).content = Unwrap(before).content
                   /\ Len(AfterTombstone(p)) =
                        IF proc[p].lock_accepted THEN 1 ELSE 0)

C18_Witness ==
    /\ UpgradeOk("p1")
    /\ proc["p1"].lock_accepted
    /\ Unwrap(room_state_get(proc["p1"].room_id, RoomPowerLevels, "",
                             log)).content = [users_default |-> 60]
    /\ Unwrap(room_state_get(proc["p1"].body.room_id, RoomPowerLevels, "",
                             log)).content.events_default = 61
    /\ alias_roomid[Unwrap(RoomAliasId_try_from("lobby"))]
            = Some(proc["p1"].room_id)


\* The request of p has finished the alias migration and not yet returned
MigrationDone(p) ==
    UpgradeOf(p) /\ proc[p].pc \in {"up_power_levels", "up_lock"}

\* C19: when the alias migration of an upgradeRoom request has met no failing
\* listing entry (and no failing rebind, or it would have returned), every
\* alias that resolved to the old room when the migration began resolves to
\* the replacement room and none resolves to the old room, from the end of
\* the migration to the return of the request; and a step of the request
\* changes an alias only from the old room to the replacement room, so every
\* alias of another room stays as it was.
C19_AliasesMoved ==
    /\ [](\A p \in Procs :
            (MigrationDone(p) /\ proc[p].skipped = {}) =>
                /\ \A a \in proc[p].listed :
                        alias_roomid[a] = Some(proc[p].room_id)
                /\ room_aliases(proc[p].body.room_id, alias_roomid) = {}
                /\ proc[p].rebind_failed = {})
    /\ [][\A p \in Procs :
            (UpgradeOf(p) /\ ~Free(p)) =>
                /\ \A a \in Aliases :
                    alias_roomid'[a] # alias_roomid[a] =>
                        /\ proc[p].pc = "up_aliases"
                        /\ alias_roomid[a] = Some(proc[p].body.room_id)
                        /\ alias_roomid'[a] = Some(proc[p].room_id)
                /\ (proc[p].pc = "up_lock" /\ proc'[p] # proc[p]) =>
                        proc'[p].result = Ok(proc[p].room_id)]_vars

C19_Witness ==
    /\ UpgradeOk("p1")
    /\ proc["p1"].skipped = {}
    /\ proc["p1"].listed = Aliases
    /\ \A a \in Aliases : alias_roomid[a] = Some(proc["p1"].room_id)


(***************************************************************************)
(* Two createRoom requests that run at the same time                       *)
(***************************************************************************)
\* Requests for the alias #lobby: one with every option, one with none
RaceRequests ==
    {[PlainCreate("@alice") EXCEPT
            !.room_alias_name = Some("lobby"),
            !.visibility = Some("public"),
            !.initial_state = <<ServerAclEntry>>,
            !.name = Some("Lobby"),
            !.topic = Some("Welcome"),
            !.invite = <<"@bob">>],
     [PlainCreate("@bob") EXCEPT !.room_alias_name = Some("lobby")]}

RaceCreate(p) ==
    /\ proc[p].pc = "idle"
    /\ \E body \in RaceRequests : create_room_route(p, body)

NextRace ==
    \/ RaceCreate("p1")
    \/ RaceCreate("p2")
    \/ CreateSteps("p1")
    \/ CreateSteps("p2")

SpecRace == Init /\ [][NextRace]_vars

\* C20 as claimed: of two finished createRoom requests for the same alias at
\* most one has returned a room id, and then the alias resolves to that room.
C20_AtMostOneWinsAlias ==
    \A p, q \in Procs :
        (/\ p # q
         /\ CreateOf(p) /\ proc[p].pc = "done"
         /\ CreateOf(q) /\ proc[q].pc = "done"
         /\ IsSome(RequestedAlias(proc[p].body))
         /\ RequestedAlias(proc[p].body) = RequestedAlias(proc[q].body)
         /\ CreateOk(p))
        => /\ ~CreateOk(q)
           /\ alias_roomid[Unwrap(RequestedAlias(proc[p].body))]
                = Some(proc[p].result.room_id)


(***************************************************************************)
(* Two upgradeRoom requests on one room, one after the other or at the     *)
(* same time                                                               *)
(***************************************************************************)
\* The room that is upgraded, and a replacement room for each of two upgrades
SupersedeRoomIds == 1..(MaxRooms + 1)

InitSupersede ==
    /\ log = [r \in SupersedeRoomIds |-> <<>>]
    /\ alias_roomid = [a \in Aliases |-> None]
    /\ public_rooms = {}
    /\ minted = 0
    /\ encryption_disabled = FALSE
    /\ proc = [p \in Procs |-> IdleProc]

\* The request that creates the room
SupersedeCreate ==
    /\ minted = 0
    /\ \E body \in {[PlainCreate("@alice") EXCEPT
                        !.room_alias_name = Some("lobby"),
                        !.visibility = Some("public"),
                        !.initial_state = <<ServerAclEntry>>,
                        !.name = Some("Lobby"),
                        !.topic = Some("Welcome"),
                        !.invite = <<"@bob">>]} :
            create_room_route("p1", body)

\* An upgradeRoom request on the first room, once its createRoom has returned
SupersedeUpgrade(p) ==
    /\ \A q \in Procs : CreateOf(q) => CreateOk(q)
    /\ \E r \in ExistingRooms :
        /\ \A other \in ExistingRooms : r <= other
        /\ upgrade_room_route(p, [sender_id |-> "@bob", room_id |-> r,
                                  new_version |-> "6"])

NextSupersede ==
    \/ SupersedeCreate
    \/ CreateSteps("p1")
    \/ SupersedeUpgrade("p1")
    \/ SupersedeUpgrade("p2")
    \/ UpgradeSteps("p1")
    \/ UpgradeSteps("p2")

SpecSupersede == InitSupersede /\ [][NextSupersede]_vars

\* C21 as claimed: whatever upgradeRoom requests ran on it, one after the
\* other or interleaved, the log of a room holds at most one tombstone.
C21_SupersededAtMostOnce ==
    \A r \in DOMAIN log : CountType(log[r], RoomTombstone) <= 1

====
